---- MODULE Spec2Model ----
(***************************************************************************)
(* Model of convert.py: the Pipfile -> pyproject.toml converter.           *)
(*                                                                         *)
(* Strings are sequences of tokens (a token is a short piece of text that  *)
(* the code never looks inside), so that concatenation, str.replace,       *)
(* str.strip, str.join, readlines and the two regular expressions are      *)
(* computed rather than assumed.                                           *)
(***************************************************************************)
EXTENDS Integers, Sequences, FiniteSets, TLC

VARIABLES
    pc,                 \* position of the running call
    file,               \* content of the file at output_path / input_file
    orig_file,          \* content of that file before the call (history)
    lines,              \* transform_file: lines read by the latest pass
    transformed_lines,  \* transform_file: lines built by the latest pass
    prev_transformed,   \* transformed_lines of the pass before (history)
    runs,               \* number of transform_file passes started
    failed_at,          \* step at which the call raised ("" = none)
    pipfile,            \* the legacy manifest on disk
    pipfile_data,       \* convert: the parsed manifest
    pyproject_data,     \* convert: the target manifest under construction
    packages_with_index,\* convert: pending index overrides
    url,                \* strip_url_credentials: argument
    clean_url           \* strip_url_credentials: result

vars == <<pc, file, orig_file, lines, transformed_lines, prev_transformed,
          runs, failed_at, pipfile, pipfile_data, pyproject_data,
          packages_with_index, url, clean_url>>

(***************************************************************************)
(* Bounds                                                                  *)
(***************************************************************************)
MaxLines == 4
MaxRuns == 2

(***************************************************************************)
(* Python values                                                           *)
(***************************************************************************)
\* Optional values: None is the empty tuple, a value x is the 1-tuple <<x>>.
None == << >>

Some(x) == <<x>>

\* Python truthiness of an optional string: None and "" are falsy.
Truthy(opt) == opt # None /\ opt[1] # << >>

IsSpace(t) == t \in {" ", "\n", "\t"}

RECURSIVE lstrip(_)
lstrip(s) ==
    IF s # << >> /\ IsSpace(Head(s)) THEN lstrip(Tail(s)) ELSE s

RECURSIVE rstrip(_)
rstrip(s) ==
    IF s # << >> /\ IsSpace(s[Len(s)])
    THEN rstrip(SubSeq(s, 1, Len(s) - 1))
    ELSE s

strip(s) == lstrip(rstrip(s))

\* s.replace("-", "_")
RECURSIVE replace_hyphens(_)
replace_hyphens(s) ==
    IF s = << >> THEN << >>
    ELSE <<IF Head(s) = "-" THEN "_" ELSE Head(s)>> \o replace_hyphens(Tail(s))

\* sep.join(parts)
RECURSIVE join(_, _)
join(sep, parts) ==
    IF parts = << >> THEN << >>
    ELSE IF Len(parts) = 1 THEN parts[1]
    ELSE parts[1] \o sep \o join(sep, Tail(parts))

\* file.readlines(): every line keeps its terminating "\n"; a last line
\* without terminator is returned as it is.
RECURSIVE readlines_from(_, _)
readlines_from(text, cur) ==
    IF text = << >> THEN (IF cur = << >> THEN << >> ELSE <<cur>>)
    ELSE IF Head(text) = "\n"
         THEN <<Append(cur, "\n")>> \o readlines_from(Tail(text), << >>)
         ELSE readlines_from(Tail(text), Append(cur, Head(text)))

readlines(text) == readlines_from(text, << >>)

\* All sequences over S of length at most n (input enumeration).
RECURSIVE SeqsUpTo(_, _)
SeqsUpTo(S, n) ==
    IF n = 0 THEN {<< >>}
    ELSE LET shorter == SeqsUpTo(S, n - 1)
         IN shorter \cup {Append(q, x) : q \in {r \in shorter : Len(r) = n - 1}, x \in S}

\* No manifest at pipfile_path.
NoManifest == [exists |-> FALSE, wellformed |-> FALSE, data |-> << >>]

\* pyproject_data before it is built.
NoTarget == << >>

(***************************************************************************)
(* strip_url_credentials                                                   *)
(*                                                                         *)
(* A URL is a token sequence: scheme, "://", the netloc tokens (user, ":", *)
(* password, "@", host, ":", port), one path token, "?", one query token,  *)
(* "#", one fragment token; every part after "://" is optional.            *)
(***************************************************************************)
PathTokens == {"/simple"}

\* Index of the first token of s at or after position from that is in S,
\* or Len(s) + 1.
first_in(s, from, S) ==
    IF \E i \in from..Len(s) : s[i] \in S
    THEN CHOOSE i \in from..Len(s) :
            s[i] \in S /\ \A j \in from..Len(s) : s[j] \in S => i <= j
    ELSE Len(s) + 1

\* urlparse(url): the six components (params is always empty here).
urlparse(u) ==
    LET netloc_end == first_in(u, 3, PathTokens \cup {"?", "#"})
        path_end   == first_in(u, 3, {"?", "#"})
        query_end  == first_in(u, 3, {"#"})
    IN [scheme   |-> <<u[1]>>,
        netloc   |-> SubSeq(u, 3, netloc_end - 1),
        path     |-> SubSeq(u, netloc_end, path_end - 1),
        params   |-> << >>,
        query    |-> SubSeq(u, path_end + 1, query_end - 1),
        fragment |-> SubSeq(u, query_end + 1, Len(u))]

\* netloc.rpartition("@"): the part before the last "@" (None if no "@").
userinfo(netloc) ==
    IF \E i \in 1..Len(netloc) : netloc[i] = "@"
    THEN Some(SubSeq(netloc, 1,
            (CHOOSE i \in 1..Len(netloc) :
                netloc[i] = "@" /\ \A j \in 1..Len(netloc) : netloc[j] = "@" => j <= i) - 1))
    ELSE None

hostinfo(netloc) ==
    IF userinfo(netloc) = None THEN netloc
    ELSE SubSeq(netloc, Len(userinfo(netloc)[1]) + 2, Len(netloc))

\* parsed.username
username(parsed) ==
    LET ui == userinfo(parsed.netloc) IN
    IF ui = None THEN None
    ELSE Some(SubSeq(ui[1], 1, first_in(ui[1], 1, {":"}) - 1))

\* parsed.password
password(parsed) ==
    LET ui == userinfo(parsed.netloc) IN
    IF ui = None \/ first_in(ui[1], 1, {":"}) > Len(ui[1]) THEN None
    ELSE Some(SubSeq(ui[1], first_in(ui[1], 1, {":"}) + 1, Len(ui[1])))

\* str.lower() on a host token
lower(t) == IF t = "Host" THEN "host" ELSE t

\* parsed.hostname: the part of hostinfo before ":", lowercased; None if empty.
hostname(parsed) ==
    LET hi   == hostinfo(parsed.netloc)
        host == SubSeq(hi, 1, first_in(hi, 1, {":"}) - 1)
    IN IF host = << >> THEN None ELSE Some([i \in 1..Len(host) |-> lower(host[i])])

\* The port text after ":" in hostinfo; None if there is no ":" or nothing
\* follows it.
port_text(parsed) ==
    LET hi == hostinfo(parsed.netloc)
        c  == first_in(hi, 1, {":"})
    IN IF c >= Len(hi) THEN None ELSE Some(hi[c + 1])

\* int(port) for the decimal port texts of the model
int_of == [t \in {"0", "80", "080", "8080", "70000"} |->
             CASE t = "0" -> 0
               [] t = "80" -> 80
               [] t = "080" -> 80
               [] t = "8080" -> 8080
               [] t = "70000" -> 70000]

\* str(n) inside the f-string
str_of(n) ==
    CASE n = 0 -> "0"
      [] n = 80 -> "80"
      [] n = 8080 -> "8080"

\* parsed.port raises ValueError: not a decimal number, or out of range.
port_raises(parsed) ==
    LET pt == port_text(parsed) IN
    /\ pt # None
    /\ \/ pt[1] \notin DOMAIN int_of
       \/ ~(0 <= int_of[pt[1]] /\ int_of[pt[1]] <= 65535)

\* parsed.port: None, or Some(integer)
port(parsed) ==
    LET pt == port_text(parsed) IN
    IF pt = None THEN None ELSE Some(int_of[pt[1]])

\* urlunparse((scheme, netloc, path, params, query, fragment))
urlunparse(scheme, netloc, path, params, query, fragment) ==
    scheme \o <<"://">> \o netloc \o path
           \o (IF query # << >> THEN <<"?">> \o query ELSE << >>)
           \o (IF fragment # << >> THEN <<"#">> \o fragment ELSE << >>)

strip_url_credentials_raises(u) == port_raises(urlparse(u))

strip_url_credentials(u) ==
    LET parsed == urlparse(u)
        host   == IF hostname(parsed) = None THEN << >> ELSE hostname(parsed)[1]
        netloc == IF port(parsed) # None /\ port(parsed)[1] # 0
                  THEN host \o <<":", str_of(port(parsed)[1])>>
                  ELSE host
    IN urlunparse(parsed.scheme, netloc, parsed.path, parsed.params,
                  parsed.query, parsed.fragment)

(***************************************************************************)
(* transform_file                                                          *)
(***************************************************************************)
\* re.match(r"^\[tool\.uv\.sources\.(.*?)\]$", s): None, or Some(group 1).
header_match(s) ==
    IF /\ Len(s) >= 4
       /\ s[1] = "[" /\ s[2] = "tool.uv.sources" /\ s[3] = "."
       /\ s[Len(s)] = "]"
       /\ \A i \in 1..Len(s) : s[i] # "\n"
    THEN Some(SubSeq(s, 4, Len(s) - 1))
    ELSE None

\* s.startswith("index =")
startswith_index(s) ==
    Len(s) >= 3 /\ s[1] = "index" /\ s[2] = " " /\ s[3] = "="

\* re.search(r'"(.+?)"', s): None, or Some(group 1).  The leftmost quote
\* that has a later quote at distance >= 2, and the nearest such quote.
quoted_search(s) ==
    LET opens == {i \in 1..Len(s) :
                    s[i] = "\"" /\ \E j \in (i + 2)..Len(s) : s[j] = "\""}
    IN IF opens = {} THEN None
       ELSE LET i == CHOOSE a \in opens : \A b \in opens : a <= b
                j == CHOOSE a \in (i + 2)..Len(s) :
                        /\ s[a] = "\""
                        /\ \A b \in (i + 2)..Len(s) : s[b] = "\"" => a <= b
            IN Some(SubSeq(s, i + 1, j - 1))

\* The line [tool.uv.sources.<pkg>]
per_package_header(pkg) == <<"[", "tool.uv.sources", ".">> \o pkg \o <<"]">>

\* The line index = "<value>"
index_line(value) == <<"index", " ", "=", " ", "\"">> \o value \o <<"\"">>

\* A text file whose lines are ls, each terminated by a newline.
RECURSIVE text_of(_)
text_of(ls) ==
    IF ls = << >> THEN << >> ELSE Head(ls) \o <<"\n">> \o text_of(Tail(ls))

shared_header == <<"[", "tool.uv.sources", "]">>

\* f'{current_section} = {{index = "{index_value}"}}'
inline_entry(section, index_value) ==
    section \o <<" ", "=", " ", "{", "index", " ", "=", " ", "\"">>
            \o index_value \o <<"\"", "}">>

\* One iteration of the loop over lines.  st is the loop state
\* [out: transformed_lines, section: current_section, raised: BOOLEAN].
transform_line(st, line) ==
    LET match == header_match(strip(line)) IN
    IF st.raised THEN st
    ELSE IF match # None
    THEN [out |-> Append(st.out, shared_header),
          section |-> match, raised |-> FALSE]
    ELSE IF Truthy(st.section) /\ startswith_index(strip(line))
    THEN LET found == quoted_search(strip(line)) IN
         IF found = None
         THEN [st EXCEPT !.raised = TRUE]
         ELSE [out |-> Append(st.out, inline_entry(st.section[1], found[1])),
               section |-> None, raised |-> FALSE]
    ELSE [st EXCEPT !.out = Append(st.out, rstrip(line))]

RECURSIVE transform_loop(_, _)
transform_loop(st, ls) ==
    IF ls = << >> THEN st
    ELSE transform_loop(transform_line(st, Head(ls)), Tail(ls))

transform_lines(ls) ==
    transform_loop([out |-> << >>, section |-> None, raised |-> FALSE], ls)

\* write_lines with every line terminated by a newline.
write_lines_terminated(ls) == text_of(ls)

\* file.write("\n".join(transformed_lines))
write_lines(ls) == join(<<"\n">>, ls)

\* The body of transform_file(path, path) on the modelled file.  An
\* exception in the loop leaves the file as it was read.
transform_file_body ==
    LET read == readlines(file)
        res  == transform_lines(read)
    IN /\ lines' = read
       /\ prev_transformed' = transformed_lines
       /\ IF res.raised
          THEN /\ failed_at' = "transform_file"
               /\ UNCHANGED <<file, transformed_lines>>
          ELSE /\ failed_at' = failed_at
               /\ transformed_lines' = res.out
               /\ file' = write_lines(res.out)

(***************************************************************************)
(* dump_custom_version and convert_pipfile_to_pyproject                    *)
(*                                                                         *)
(* A TOML value is a record [type, v]: "str" (token sequence), "dict"      *)
(* (function from keys to values), "list" (sequence), "int", "bool".       *)
(* Inside a dependency table the fields git, ref, version and index hold   *)
(* token sequences; extras holds a TOML value.  A Python dict that is      *)
(* iterated is a sequence of <<key, value>> pairs with distinct keys, in   *)
(* insertion order.                                                        *)
(***************************************************************************)
Str(s) == [type |-> "str", v |-> s]

Dict(f) == [type |-> "dict", v |-> f]

List(items) == [type |-> "list", v |-> items]

\* d[key] = value on an insertion-ordered dict
dict_set(d, key, value) ==
    IF \E i \in 1..Len(d) : d[i][1] = key
    THEN [i \in 1..Len(d) |-> IF d[i][1] = key THEN <<key, value>> ELSE d[i]]
    ELSE Append(d, <<key, value>>)

\* PIPFILE_TO_UV_DEP_NAMES with both sections mapped to the project list.
PIPFILE_TO_UV_DEP_NAMES_one_list ==
    << <<"packages", "dependencies">>, <<"dev-packages", "dependencies">> >>

PIPFILE_TO_UV_DEP_NAMES ==
    << <<"packages", "dependencies">>, <<"dev-packages", "dev-dependencies">> >>

\* dump_custom_version with the version test placed before the git test.
dump_custom_version_version_first(package, version) ==
    LET pkg == IF "extras" \in DOMAIN version
               THEN package \o <<"[">> \o join(<<",">>, version["extras"].v) \o <<"]">>
               ELSE package
    IN IF "version" \in DOMAIN version
       THEN pkg \o version["version"]
       ELSE IF "git" \in DOMAIN version
       THEN pkg \o <<" @ ">> \o version["git"] \o <<"@">>
                \o (IF "ref" \in DOMAIN version THEN version["ref"] ELSE <<"main">>)
       ELSE pkg

\* ",".join(version["extras"]) raises TypeError unless extras is a list
\* (of strings).
dump_custom_version_raises(package, version) ==
    "extras" \in DOMAIN version /\ version["extras"].type # "list"

dump_custom_version(package, version) ==
    LET pkg == IF "extras" \in DOMAIN version
               THEN package \o <<"[">> \o join(<<",">>, version["extras"].v) \o <<"]">>
               ELSE package
    IN IF "git" \in DOMAIN version
       THEN pkg \o <<" @ ">> \o version["git"] \o <<"@">>
                \o (IF "ref" \in DOMAIN version THEN version["ref"] ELSE <<"main">>)
       ELSE IF "version" \in DOMAIN version
       THEN pkg \o version["version"]
       ELSE pkg

\* Lines 70-80: the target manifest as first built.
initial_pyproject_data ==
    [project |-> [k \in {"name", "version", "description", "requires-python",
                         "dependencies", "dev-dependencies"} |->
                    CASE k = "name" -> <<"project-name">>
                      [] k = "version" -> <<"0.0.0">>
                      [] k = "description" -> <<"Project description">>
                      [] k = "requires-python" -> <<"==">> \o <<"3.10.15">>
                      [] OTHER -> << >>],
     uv |-> [k \in {"dev-dependencies", "sources"} |-> << >>]]

\* source_entry with the URL taken over as it is.
source_entry_raw_url(source) ==
    [name |-> replace_hyphens(source.name), url |-> source.url]

\* Lines 87-90: one entry of the index list.
source_entry(source) ==
    [name |-> replace_hyphens(source.name),
     url  |-> strip_url_credentials(source.url)]

\* Lines 85-91: the index list built from the source section.
index_list(sources) == [i \in 1..Len(sources) |-> source_entry(sources[i])]

\* Lines 100-113: one package of one section.  st is
\* [data: pyproject_data, pwi: packages_with_index, raised: BOOLEAN].
convert_package(st, uv_name, package, version) ==
    IF st.raised THEN st
    ELSE IF version.type = "str"
    THEN [st EXCEPT !.data.project[uv_name] =
            Append(@, IF version.v = <<"*">> THEN package ELSE package \o version.v)]
    ELSE IF version.type = "dict"
    THEN LET pwi == IF "index" \in DOMAIN version.v
                    THEN dict_set(st.pwi, package, [index |-> version.v["index"]])
                    ELSE st.pwi
         IN IF dump_custom_version_raises(package, version.v)
            THEN [st EXCEPT !.pwi = pwi, !.raised = TRUE]
            ELSE [st EXCEPT !.pwi = pwi,
                            !.data.project[uv_name] =
                                Append(@, dump_custom_version(package, version.v))]
    ELSE st

RECURSIVE convert_section(_, _, _)
convert_section(st, uv_name, items) ==
    IF items = << >> THEN st
    ELSE convert_section(
            convert_package(st, uv_name, Head(items)[1], Head(items)[2]),
            uv_name, Tail(items))

\* Lines 97-113: both sections, in the order of PIPFILE_TO_UV_DEP_NAMES.
RECURSIVE convert_sections(_, _, _)
convert_sections(st, data, names) ==
    IF names = << >> THEN st
    ELSE LET pipfile_name == Head(names)[1]
             uv_name      == Head(names)[2]
         IN convert_sections(
                IF data[pipfile_name] # None
                THEN convert_section(st, uv_name, data[pipfile_name][1])
                ELSE st,
                data, Tail(names))

\* normalized_overrides without the replacement of hyphens.
normalized_overrides_unnormalized(pwi) == pwi

\* Line 118 on every pending override.
normalized_overrides(pwi) ==
    [i \in 1..Len(pwi) |->
        <<pwi[i][1], [index |-> replace_hyphens(pwi[i][2].index)]>>]

\* Line 119 for every pending override, in order.
RECURSIVE add_sources(_, _)
add_sources(sources, pwi) ==
    IF pwi = << >> THEN sources
    ELSE add_sources(dict_set(sources, Head(pwi)[1], Head(pwi)[2]), Tail(pwi))

\* toml.dump(pyproject_data, pyproject_file): the draft text.  One table
\* per nested dict, each followed by an empty line; a table per entry of
\* tool.uv.sources.
toml_string(s) == <<"\"">> \o s \o <<"\"">>

toml_array(items) ==
    <<"[">> \o join(<<",">>, [i \in 1..Len(items) |-> toml_string(items[i])]) \o <<"]">>

RECURSIVE concat(_)
concat(seqs) == IF seqs = << >> THEN << >> ELSE Head(seqs) \o concat(Tail(seqs))

toml_dumps(data) ==
    LET p == data.project
        u == data.uv
        project_lines ==
            << <<"[", "project", "]">>,
               <<"name", " ", "=", " ">> \o toml_string(p["name"]),
               <<"version", " ", "=", " ">> \o toml_string(p["version"]),
               <<"description", " ", "=", " ">> \o toml_string(p["description"]),
               <<"requires-python", " ", "=", " ">> \o toml_string(p["requires-python"]),
               <<"dependencies", " ", "=", " ">> \o toml_array(p["dependencies"]) >>
            \o (IF "dev-dependencies" \in DOMAIN p
                THEN << <<"dev-dependencies", " ", "=", " ">>
                          \o toml_array(p["dev-dependencies"]) >>
                ELSE << >>)
            \o << << >> >>
        uv_lines ==
            << <<"[", "tool.uv", "]">>,
               <<"dev-dependencies", " ", "=", " ">> \o toml_array(u["dev-dependencies"]),
               << >> >>
        index_lines ==
            IF "index" \in DOMAIN u
            THEN concat([i \in 1..Len(u["index"]) |->
                    << <<"[[", "tool.uv.index", "]]">>,
                       <<"name", " ", "=", " ">> \o toml_string(u["index"][i].name),
                       <<"url", " ", "=", " ">> \o toml_string(u["index"][i].url),
                       << >> >>])
            ELSE << >>
        sources_lines ==
            concat([i \in 1..Len(u["sources"]) |->
                    << per_package_header(u["sources"][i][1]),
                       index_line(u["sources"][i][2].index),
                       << >> >>])
    IN text_of(project_lines \o uv_lines \o index_lines \o sources_lines)

(***************************************************************************)
(* convert_pipfile_to_pyproject on the manifests of the model              *)
(***************************************************************************)
MaxSources == 2
MaxPackages == 2
MaxDevPackages == 2

PackageNames == {<<"foo">>, <<"my", "-", "pkg">>}

GitUrl == <<"https", "://", "x", "/y.git">>

\* Values of the packages section.
PackageSpecs ==
    { Str(<<"*">>),
      Str(<<"==1.0">>),
      Dict([k \in {"version", "extras"} |->
              IF k = "version" THEN <<"==1.2.3">> ELSE List(<< <<"a">>, <<"b">> >>)]),
      Dict([k \in {"git"} |-> GitUrl]),
      Dict([k \in {"git", "ref", "version"} |->
              CASE k = "git" -> GitUrl [] k = "ref" -> <<"dev">> [] OTHER -> <<"==1.0">>]),
      Dict([k \in {"version", "index"} |->
              IF k = "version" THEN <<"==1.0">> ELSE <<"my", "-", "index">>]),
      Dict([k \in {"index"} |-> << >>]),
      Dict([k \in {"extras"} |-> [type |-> "bool", v |-> TRUE]]),
      [type |-> "int", v |-> 1] }

\* Values of the dev-packages section.
DevPackageSpecs ==
    { Str(<<">=2">>),
      Dict([k \in {"version", "index"} |->
              IF k = "version" THEN <<"==1.0">> ELSE <<"dev", "-", "index", "-", "2">>]) }

SourceEntries ==
    { [name |-> <<"my", "-", "index">>,
       url  |-> <<"https", "://", "user", ":", "pw", "@", "host", ":", "8080", "/simple">>],
      [name |-> <<"pypi">>, url |-> <<"https", "://", "host", "/simple">>],
      [name |-> <<"bad">>, url |-> <<"https", "://", "host", ":", "x", "/simple">>] }

\* The tables a section can be: <<name, value>> pairs with distinct names.
Tables(values, n) ==
    {t \in SeqsUpTo(PackageNames \X values, n) :
        \A i, j \in 1..Len(t) : i # j => t[i][1] # t[j][1]}

\* The source sections: entries with distinct names.
SourceLists ==
    {t \in SeqsUpTo(SourceEntries, MaxSources) :
        \A i, j \in 1..Len(t) : i # j => t[i].name # t[j].name}

Optional(S) == {None} \cup {Some(x) : x \in S}

ManifestData ==
    {[k \in {"source", "packages", "dev-packages"} |->
        CASE k = "source" -> so [] k = "packages" -> pk [] OTHER -> dv] :
        so \in Optional(SourceLists),
        pk \in Optional(Tables(PackageSpecs, MaxPackages)),
        dv \in Optional(Tables(DevPackageSpecs, MaxDevPackages))}

Manifests ==
    {NoManifest, [exists |-> TRUE, wellformed |-> FALSE, data |-> << >>]}
    \cup {[exists |-> TRUE, wellformed |-> TRUE, data |-> d] : d \in ManifestData}

\* The content of output_path before the call (an existing pyproject.toml).
OutputFiles == {<<"old", "\n">>}

InitConvert ==
    /\ pc = "load_pipfile"
    /\ pipfile \in Manifests
    /\ file \in OutputFiles
    /\ orig_file = file
    /\ pipfile_data = << >>
    /\ pyproject_data = NoTarget
    /\ packages_with_index = << >>
    /\ lines = << >>
    /\ transformed_lines = << >>
    /\ prev_transformed = << >>
    /\ runs = 0
    /\ failed_at = ""
    /\ url = << >>
    /\ clean_url = << >>

Fail(step) == pc' = "failed" /\ failed_at' = step

\* LoadPipfile with output_path opened for writing before the manifest is
\* read.
LoadPipfile_opens_output_first ==
    /\ pc = "load_pipfile"
    /\ file' = << >>
    /\ IF pipfile.exists /\ pipfile.wellformed
       THEN /\ pipfile_data' = pipfile.data
            /\ pyproject_data' = initial_pyproject_data
            /\ pc' = "handle_sources"
            /\ UNCHANGED failed_at
       ELSE /\ Fail("load_pipfile")
            /\ UNCHANGED <<pipfile_data, pyproject_data>>
    /\ UNCHANGED <<orig_file, lines, transformed_lines, prev_transformed,
                   runs, pipfile, packages_with_index, url, clean_url>>

\* Lines 66-80
LoadPipfile ==
    /\ pc = "load_pipfile"
    /\ IF pipfile.exists /\ pipfile.wellformed
       THEN /\ pipfile_data' = pipfile.data
            /\ pyproject_data' = initial_pyproject_data
            /\ pc' = "handle_sources"
            /\ UNCHANGED failed_at
       ELSE /\ Fail("load_pipfile")
            /\ UNCHANGED <<pipfile_data, pyproject_data>>
    /\ UNCHANGED <<file, orig_file, lines, transformed_lines, prev_transformed,
                   runs, pipfile, packages_with_index, url, clean_url>>

\* Lines 82-91
HandleSources ==
    /\ pc = "handle_sources"
    /\ IF pipfile_data["source"] = None
       THEN /\ pc' = "convert_dependencies"
            /\ UNCHANGED <<pyproject_data, failed_at>>
       ELSE LET sources == pipfile_data["source"][1]
                bad     == {i \in 1..Len(sources) :
                              strip_url_credentials_raises(sources[i].url)}
                done    == IF bad = {} THEN sources
                           ELSE SubSeq(sources, 1,
                                  (CHOOSE i \in bad : \A j \in bad : i <= j) - 1)
                uv      == pyproject_data.uv
            IN /\ pyproject_data' =
                    [pyproject_data EXCEPT !.uv =
                        [k \in DOMAIN uv \cup {"index"} |->
                            IF k = "index" THEN index_list(done) ELSE uv[k]]]
               /\ IF bad = {}
                  THEN pc' = "convert_dependencies" /\ UNCHANGED failed_at
                  ELSE Fail("handle_sources")
    /\ UNCHANGED <<file, orig_file, lines, transformed_lines, prev_transformed,
                   runs, pipfile, pipfile_data, packages_with_index, url, clean_url>>

\* Lines 93-113
ConvertDependencies ==
    /\ pc = "convert_dependencies"
    /\ LET st == convert_sections(
                    [data |-> pyproject_data, pwi |-> << >>, raised |-> FALSE],
                    pipfile_data, PIPFILE_TO_UV_DEP_NAMES)
       IN /\ pyproject_data' = st.data
          /\ packages_with_index' = st.pwi
          /\ IF st.raised
             THEN Fail("convert_dependencies")
             ELSE pc' = "add_sources" /\ UNCHANGED failed_at
    /\ UNCHANGED <<file, orig_file, lines, transformed_lines, prev_transformed,
                   runs, pipfile, pipfile_data, url, clean_url>>

\* Lines 115-119
AddSources ==
    /\ pc = "add_sources"
    /\ packages_with_index' = normalized_overrides(packages_with_index)
    /\ pyproject_data' =
          [pyproject_data EXCEPT !.uv["sources"] =
              add_sources(@, normalized_overrides(packages_with_index))]
    /\ pc' = "move_dev_dependencies"
    /\ UNCHANGED <<file, orig_file, lines, transformed_lines, prev_transformed,
                   runs, failed_at, pipfile, pipfile_data, url, clean_url>>

\* Lines 121-124
MoveDevDependencies ==
    /\ pc = "move_dev_dependencies"
    /\ LET p == pyproject_data.project IN
       pyproject_data' =
          [pyproject_data EXCEPT
              !.uv["dev-dependencies"] = p["dev-dependencies"],
              !.project = [k \in DOMAIN p \ {"dev-dependencies"} |-> p[k]]]
    /\ pc' = "write_draft"
    /\ UNCHANGED <<file, orig_file, lines, transformed_lines, prev_transformed,
                   runs, failed_at, pipfile, pipfile_data, packages_with_index,
                   url, clean_url>>

\* Lines 126-128.  open(output_path, "w") can raise (the file system's
\* choice), which leaves the file as it was.
WriteDraft ==
    /\ pc = "write_draft"
    /\ \E opened \in BOOLEAN :
          IF opened
          THEN /\ file' = toml_dumps(pyproject_data)
               /\ pc' = "transform_file"
               /\ UNCHANGED failed_at
          ELSE /\ Fail("write_draft")
               /\ UNCHANGED file
    /\ UNCHANGED <<orig_file, lines, transformed_lines, prev_transformed, runs,
                   pipfile, pipfile_data, pyproject_data, packages_with_index,
                   url, clean_url>>

\* Line 130: transform_file(output_path, output_path)
CallTransformFile ==
    /\ pc = "transform_file"
    /\ runs = 0
    /\ pipfile.exists
    /\ runs' = runs + 1
    /\ transform_file_body
    /\ pc' = IF failed_at' = "transform_file" THEN "failed" ELSE "done"
    /\ UNCHANGED <<orig_file, pipfile, pipfile_data, pyproject_data,
                   packages_with_index, url, clean_url>>

NextConvert ==
    \/ LoadPipfile
    \/ HandleSources
    \/ ConvertDependencies
    \/ AddSources
    \/ MoveDevDependencies
    \/ WriteDraft
    \/ CallTransformFile

SpecConvert == InitConvert /\ [][NextConvert]_vars

(***************************************************************************)
(* Claims about convert_pipfile_to_pyproject (checked under SpecConvert)   *)
(***************************************************************************)
Loaded == pipfile.exists /\ pipfile.wellformed

\* The entries of a section of the legacy manifest (none if it is absent).
SectionItems(section) ==
    IF pipfile.data[section] = None THEN << >> ELSE pipfile.data[section][1]

IsString(item) == item[2].type = "str"

IsRecord(item) == item[2].type = "dict"

IsVersionSpec(item) == IsString(item) \/ IsRecord(item)

HasIndex(item) == IsRecord(item) /\ "index" \in DOMAIN item[2].v

\* The specifier of the spec's section 4.2, rules 1 to 6 in order.
SpecifierOf(item) ==
    LET name == item[1]
        spec == item[2].v
        package == IF IsRecord(item) /\ "extras" \in DOMAIN spec
                   THEN name \o <<"[">> \o join(<<",">>, spec["extras"].v) \o <<"]">>
                   ELSE name
    IN CASE IsString(item) /\ spec = <<"*">> -> name
         [] IsString(item) /\ spec # <<"*">> -> name \o spec
         [] IsRecord(item) /\ "git" \in DOMAIN spec ->
                package \o <<" @ ">> \o spec["git"] \o <<"@">>
                        \o (IF "ref" \in DOMAIN spec THEN spec["ref"] ELSE <<"main">>)
         [] IsRecord(item) /\ "git" \notin DOMAIN spec /\ "version" \in DOMAIN spec ->
                package \o spec["version"]
         [] OTHER -> package

\* The specifiers of the string and record entries of a section, in order.
Specifiers(section) ==
    LET items == SelectSeq(SectionItems(section), IsVersionSpec)
    IN [i \in 1..Len(items) |-> SpecifierOf(items[i])]

Range(f) == {f[i] : i \in DOMAIN f}

\* Both dependency sections have been converted.
Converted ==
    \/ pc \in {"add_sources", "move_dev_dependencies", "write_draft",
               "transform_file", "done"}
    \/ pc = "failed" /\ failed_at \in {"write_draft", "transform_file"}

\* The dev-dependency list has been moved: the manifest that is serialized.
Relocated ==
    \/ pc \in {"write_draft", "transform_file", "done"}
    \/ pc = "failed" /\ failed_at \in {"write_draft", "transform_file"}

\* The list a section is converted into, wherever it currently is.
TargetList(section) ==
    IF section = "packages" THEN pyproject_data.project["dependencies"]
    ELSE IF "dev-dependencies" \in DOMAIN pyproject_data.project
    THEN pyproject_data.project["dev-dependencies"]
    ELSE pyproject_data.uv["dev-dependencies"]

\* C3: the dependency string placed in the target list for a package is
\* the one the first-match precedence gives: "*" -> name; other literal ->
\* name+literal; record -> name[extras] first, then git (ref defaulting to
\* main) before version, before the bare package.
C3_SpecifierPrecedence ==
    Converted =>
        \A section \in {"packages", "dev-packages"} :
            TargetList(section) = Specifiers(section)

\* A conversion that rendered a record with git, ref and version.
C3_Witness ==
    /\ pc = "done"
    /\ \E i \in 1..Len(pyproject_data.project["dependencies"]) :
          pyproject_data.project["dependencies"][i]
            = <<"foo", " @ ">> \o GitUrl \o <<"@", "dev">>
    /\ \E i \in 1..Len(pyproject_data.project["dependencies"]) :
          pyproject_data.project["dependencies"][i]
            = <<"my", "-", "pkg", "[", "a", ",", "b", "]", "==1.2.3">>

HasMalformedSpec ==
    \E section \in {"packages", "dev-packages"} :
        \E i \in 1..Len(SectionItems(section)) :
            ~IsVersionSpec(SectionItems(section)[i])

\* C4: a manifest with an entry that is neither a string nor a record makes
\* the conversion fail; it never completes.
C4_MalformedSpecRejected ==
    (Loaded /\ HasMalformedSpec) => pc # "done"

\* The pending overrides have been inserted into the sources mapping.
SourcesAdded ==
    \/ pc \in {"move_dev_dependencies", "write_draft", "transform_file", "done"}
    \/ pc = "failed" /\ failed_at \in {"write_draft", "transform_file"}

IndexedItems(section) == SelectSeq(SectionItems(section), HasIndex)

\* The index name a package is given by the sections, the later section
\* winning.
IndexNameOf(p) ==
    LET dev == {it \in Range(IndexedItems("dev-packages")) : it[1] = p}
        reg == {it \in Range(IndexedItems("packages")) : it[1] = p}
    IN (CHOOSE it \in (IF dev # {} THEN dev ELSE reg) : TRUE)[2].v["index"]

\* C5: after both sections, sources has a key for p exactly when p's spec
\* is a record with an index field; its value is {index: n}, n that index
\* name with every hyphen replaced by an underscore; and every key names a
\* package whose specifier was appended to one of the two lists.
C5_SourcesMatchIndexedPackages ==
    SourcesAdded =>
        LET sources == pyproject_data.uv["sources"] IN
        /\ {sources[i][1] : i \in 1..Len(sources)}
             = {it[1] : it \in Range(IndexedItems("packages"))
                                \cup Range(IndexedItems("dev-packages"))}
        /\ \A i, j \in 1..Len(sources) : i # j => sources[i][1] # sources[j][1]
        /\ \A i \in 1..Len(sources) :
              /\ sources[i][2] = [index |-> replace_hyphens(IndexNameOf(sources[i][1]))]
              /\ \A k \in 1..Len(sources[i][2].index) : sources[i][2].index[k] # "-"
              /\ \E section \in {"packages", "dev-packages"} :
                    \E it \in Range(IndexedItems(section)) :
                        /\ it[1] = sources[i][1]
                        /\ SpecifierOf(it) \in Range(TargetList(section))

\* A conversion with an indexed package in each section.
C5_Witness ==
    /\ pc = "done"
    /\ pyproject_data.uv["sources"]
         = << <<<<"foo">>, [index |-> <<"my", "_", "index">>]>>,
              <<<<"my", "-", "pkg">>, [index |-> <<"dev", "_", "index", "_", "2">>]>> >>

\* C6: the serialized manifest has no dev-dependencies key under project;
\* the tool-scoped list holds exactly the specifiers of dev-packages, in
\* order; the project list exactly those of packages; no specifier that
\* only dev-packages produces is in the project list, and no specifier that
\* only packages produces is in the tool-scoped list.
C6_DevDependenciesRelocated ==
    Relocated =>
        LET deps == pyproject_data.project["dependencies"]
            dev  == pyproject_data.uv["dev-dependencies"]
        IN /\ "dev-dependencies" \notin DOMAIN pyproject_data.project
           /\ dev = Specifiers("dev-packages")
           /\ deps = Specifiers("packages")
           /\ \A sp \in Range(Specifiers("dev-packages")) \ Range(Specifiers("packages")) :
                 sp \notin Range(deps)
           /\ \A sp \in Range(Specifiers("packages")) \ Range(Specifiers("dev-packages")) :
                 sp \notin Range(dev)

\* A serialized manifest with two dev specifiers and a regular one.
C6_Witness ==
    /\ pc = "done"
    /\ pyproject_data.uv["dev-dependencies"]
         = << <<"my", "-", "pkg", ">=2">>, <<"foo", "==1.0">> >>
    /\ pyproject_data.project["dependencies"] = << <<"foo">> >>

\* The source section has been handled without error.
SourcesHandled ==
    /\ pc \notin {"load_pipfile", "handle_sources"}
    /\ ~(pc = "failed" /\ failed_at \in {"load_pipfile", "handle_sources"})

\* C7: with a source section, the index list has its length and its i-th
\* entry is the i-th source with the name's hyphens replaced and the URL's
\* credentials stripped; without one, no index list is created.
C7_IndexListMirrorsSources ==
    SourcesHandled =>
        LET uv == pyproject_data.uv IN
        IF pipfile.data["source"] = None
        THEN "index" \notin DOMAIN uv
        ELSE LET sources == pipfile.data["source"][1] IN
             /\ "index" \in DOMAIN uv
             /\ Len(uv["index"]) = Len(sources)
             /\ \A i \in 1..Len(sources) :
                   /\ uv["index"][i].name = replace_hyphens(sources[i].name)
                   /\ uv["index"][i].url = strip_url_credentials(sources[i].url)
                   /\ username(urlparse(uv["index"][i].url)) = None
                   /\ password(urlparse(uv["index"][i].url)) = None

\* Two sources, the second with credentials and hyphens.
C7_Witness ==
    /\ pc = "done"
    /\ "index" \in DOMAIN pyproject_data.uv
    /\ pyproject_data.uv["index"]
         = << [name |-> <<"pypi">>, url |-> <<"https", "://", "host", "/simple">>],
              [name |-> <<"my", "_", "index">>,
               url  |-> <<"https", "://", "host", ":", "8080", "/simple">>] >>

\* C9: the output file is first written after the manifest has been read,
\* parsed and mapped; a failure while loading the manifest, stripping a
\* source URL or rendering a dependency leaves the output file as it was;
\* and a failure that leaves a changed output file is a failure of
\* transform_file, with the draft on disk.
C9_OutputWrittenOnlyAfterMapping ==
    /\ pc \in {"load_pipfile", "handle_sources", "convert_dependencies",
               "add_sources", "move_dev_dependencies", "write_draft"}
          => file = orig_file
    /\ (pc = "failed" /\ failed_at \in {"load_pipfile", "handle_sources",
                                        "convert_dependencies"})
          => file = orig_file
    /\ (pc = "failed" /\ file # orig_file)
          => failed_at = "transform_file" /\ file = toml_dumps(pyproject_data)

\* Rendering a dependency failed and the output file is as it was.
C9_Witness ==
    /\ pc = "failed"
    /\ failed_at = "convert_dependencies"
    /\ file = orig_file
    /\ file # << >>

\* transform_file failed and the draft is on disk.
C9_WitnessDraft ==
    /\ pc = "failed"
    /\ failed_at = "transform_file"
    /\ file = toml_dumps(pyproject_data)

(***************************************************************************)
(* transform_file alone, on arbitrary text files                           *)
(***************************************************************************)
\* The lines an input file is made of (without their terminators).
InputLines ==
    { per_package_header(<<"foo">>),
      per_package_header(<<"index">>),
      index_line(<<"bar">>),
      index_line(<<"qux">>),
      <<" ">> \o index_line(<<"bar">>),
      <<"index", " ", "=", " ", "5">>,
      <<"name", " ", "=", " ", "1", " ">>,
      shared_header,
      << >> }

InitRewrite ==
    /\ pc = "transform_file"
    /\ \E ls \in SeqsUpTo(InputLines, MaxLines) : file = text_of(ls)
    /\ orig_file = file
    /\ lines = << >>
    /\ transformed_lines = << >>
    /\ prev_transformed = << >>
    /\ runs = 0
    /\ failed_at = ""
    /\ pipfile = NoManifest
    /\ pipfile_data = << >>
    /\ pyproject_data = NoTarget
    /\ packages_with_index = << >>
    /\ url = << >>
    /\ clean_url = << >>

\* transform_file(path, path), run on the file the previous pass left.
TransformFile ==
    /\ pc = "transform_file"
    /\ runs < MaxRuns
    /\ runs' = runs + 1
    /\ transform_file_body
    /\ pc' = IF failed_at' = "transform_file" THEN "failed" ELSE pc
    /\ UNCHANGED <<orig_file, pipfile, pipfile_data, pyproject_data,
                   packages_with_index, url, clean_url>>

NextRewrite == TransformFile

SpecRewrite == InitRewrite /\ [][NextRewrite]_vars

(***************************************************************************)
(* strip_url_credentials alone, on the URLs of the model                   *)
(***************************************************************************)
UserInfos == {<< >>, <<"user", "@">>, <<"user", ":", "pw", "@">>}

Hosts == {<<"host">>, <<"Host">>}

Ports == {<< >>, <<":", "0">>, <<":", "8080">>, <<":", "080">>, <<":", "x">>,
          <<":", "70000">>}

Paths == {<< >>, <<"/simple">>}

Queries == {<< >>, <<"?", "q=1">>}

Fragments == {<< >>, <<"#", "frag">>}

Urls ==
    {<<"https", "://">> \o ui \o h \o p \o pa \o q \o f :
        ui \in UserInfos, h \in Hosts, p \in Ports, pa \in Paths,
        q \in Queries, f \in Fragments}

InitUrl ==
    /\ pc = "strip_url_credentials"
    /\ url \in Urls
    /\ clean_url = << >>
    /\ failed_at = ""
    /\ file = << >>
    /\ orig_file = << >>
    /\ lines = << >>
    /\ transformed_lines = << >>
    /\ prev_transformed = << >>
    /\ runs = 0
    /\ pipfile = NoManifest
    /\ pipfile_data = << >>
    /\ pyproject_data = NoTarget
    /\ packages_with_index = << >>

StripUrlCredentials ==
    /\ pc = "strip_url_credentials"
    /\ IF strip_url_credentials_raises(url)
       THEN /\ pc' = "failed"
            /\ failed_at' = "strip_url_credentials"
            /\ UNCHANGED clean_url
       ELSE /\ pc' = "returned"
            /\ clean_url' = strip_url_credentials(url)
            /\ UNCHANGED failed_at
    /\ UNCHANGED <<url, file, orig_file, lines, transformed_lines,
                   prev_transformed, runs, pipfile, pipfile_data,
                   pyproject_data, packages_with_index>>

NextUrl == StripUrlCredentials

SpecUrl == InitUrl /\ [][NextUrl]_vars

(***************************************************************************)
(* Claims about strip_url_credentials (checked under SpecUrl)              *)
(***************************************************************************)
\* C8: for every parseable URL the result has the scheme, host, port,
\* path, query and fragment of the input, each present exactly when it was
\* present in the input (an explicit port of any value included), and no
\* userinfo.
C8_ComponentsPreserved ==
    pc = "returned" =>
        LET a == urlparse(url)
            b == urlparse(clean_url)
        IN /\ b.scheme = a.scheme
           /\ hostname(b) = hostname(a)
           /\ port(b) = port(a)
           /\ b.path = a.path
           /\ b.query = a.query
           /\ b.fragment = a.fragment
           /\ username(b) = None
           /\ password(b) = None

(***************************************************************************)
(* Claims about transform_file (checked under SpecRewrite)                 *)
(***************************************************************************)
\* A line as readlines returned it, without its terminator.
chomp(line) ==
    IF line # << >> /\ line[Len(line)] = "\n"
    THEN SubSeq(line, 1, Len(line) - 1)
    ELSE line

BlockPkgs == {<<"foo">>, <<"index">>}

BlockValues == {<<"bar">>, <<"qux">>}

\* ls is a contiguous run of N >= 1 matched blocks.
IsBlockRun(ls) ==
    /\ Len(ls) >= 2
    /\ Len(ls) % 2 = 0
    /\ \A k \in 1..(Len(ls) \div 2) :
          /\ \E p \in BlockPkgs : chomp(ls[2 * k - 1]) = per_package_header(p)
          /\ \E v \in BlockValues : chomp(ls[2 * k]) = index_line(v)

BlockPkg(ls, k) ==
    CHOOSE p \in BlockPkgs : chomp(ls[2 * k - 1]) = per_package_header(p)

BlockValue(ls, k) ==
    CHOOSE v \in BlockValues : chomp(ls[2 * k]) = index_line(v)

\* The shared header once, then one inline entry per block.
HeaderOnceOutput(ls) ==
    <<shared_header>> \o
    [k \in 1..(Len(ls) \div 2) |-> inline_entry(BlockPkg(ls, k), BlockValue(ls, k))]

Completed == runs >= 1 /\ failed_at = ""

\* C1: a contiguous run of N >= 1 matched blocks is rewritten into the
\* header line [tool.uv.sources] exactly once, before the first inline
\* entry, followed by one inline entry per block and no further header.
C1_HeaderOncePerRun ==
    (Completed /\ IsBlockRun(lines)) => transformed_lines = HeaderOnceOutput(lines)

IsHeaderLine(line) == header_match(strip(line)) # None

\* Line i of ls is outside every matched block: neither a per-package
\* header nor an index line immediately following one.
OutsideBlocks(ls, i) ==
    /\ ~IsHeaderLine(ls[i])
    /\ ~(i > 1 /\ IsHeaderLine(ls[i - 1]) /\ startswith_index(strip(ls[i])))

\* C2: every line outside a matched block is emitted at the same position,
\* unchanged apart from trailing-whitespace trimming; in particular an
\* index line that does not immediately follow a header is not rewritten.
C2_OutsideLinesPassThrough ==
    Completed =>
        /\ Len(transformed_lines) = Len(lines)
        /\ \A i \in 1..Len(lines) :
              OutsideBlocks(lines, i) => transformed_lines[i] = rstrip(lines[i])

SecondPassCompleted == runs >= 2 /\ failed_at = ""

\* C10 as stated: a second pass over the output of a completed pass yields
\* exactly the lines the first pass produced.
C10_IdempotentAsStated ==
    SecondPassCompleted => transformed_lines = prev_transformed

DropLastEmpty(ls) ==
    IF ls # << >> /\ ls[Len(ls)] = << >> THEN SubSeq(ls, 1, Len(ls) - 1) ELSE ls

\* C10 amended: on the second pass no line is matched as a per-package
\* header and none is rewritten, so every line is emitted as the first pass
\* produced it, except that an empty last line of the first pass is lost
\* (it is written as a final newline, which readlines does not return as a
\* line).
C10_IdempotentUpToLastEmptyLine ==
    SecondPassCompleted =>
        /\ \A i \in 1..Len(lines) : ~IsHeaderLine(lines[i])
        /\ transformed_lines = [i \in 1..Len(lines) |-> chomp(lines[i])]
        /\ transformed_lines = DropLastEmpty(prev_transformed)

\* A second pass that completed over a shared header and an inline entry
\* whose text starts with "index =".
C10_Witness ==
    /\ runs = 2 /\ failed_at = ""
    /\ \E i \in 1..Len(transformed_lines) :
          /\ transformed_lines[i] = shared_header
          /\ i < Len(transformed_lines)
          /\ transformed_lines[i + 1] = inline_entry(<<"index">>, <<"bar">>)

\* A second pass that lost the empty last line of the first.
C10_WitnessLastEmpty ==
    /\ runs = 2 /\ failed_at = ""
    /\ prev_transformed # << >>
    /\ Len(transformed_lines) = Len(prev_transformed) - 1

====
